---- MODULE Spec2Model ----
(***************************************************************************)
(* The agent deployment pipeline of getonstack:                            *)
(*   backend/api/routes/agents.py        create_agent, delete_agent and    *)
(*                                       the background run                *)
(*                                       process_agent_deployment          *)
(*   backend/services/framework_detector.py   FrameworkDetector            *)
(*   backend/models/agent.py             the Agent record                  *)
(*                                                                         *)
(* The record store is a function from primary key to Agent row.  The file *)
(* system is a function from the temporary directories that exist to their *)
(* content.  Each request, and then the background run it schedules, is a  *)
(* small sequential process whose position is pc[a]; requests, runs and    *)
(* deletes interleave between the blocking calls of each other.            *)
(*                                                                         *)
(* The environment decides: which key the store gives a new row (a         *)
(* sequence, or one more than the largest key there), whether a commit or  *)
(* a read of the record store goes through, whether mkdtemp makes its      *)
(* directory, how the clone process ends, how `git rev-parse` ends, what   *)
(* the cloned tree holds, how much of a tree shutil.rmtree manages to      *)
(* remove (it is called with ignore_errors=True, so a failure is silent)   *)
(* and whether the rollback of db.close() goes through.                    *)
(* The cloned tree decides what the classification meets: files it cannot  *)
(* read, names whose open never returns, directories nested deeper than    *)
(* os.walk can recurse.                                                    *)
(***************************************************************************)
EXTENDS Integers, Sequences, FiniteSets, TLC

\* ----------------------------------------------------------------- bounds
\* Number of create_agent requests served under every failure of the
\* environment.  One request exercises every path of a run together with a
\* concurrent delete; with two, the runs interleave as well and a key can
\* be handed out again.
MaxAgents == 1

\* Number of create_agent requests served in the specification of key
\* reuse, where the store, the clone and the detection do not fail.
MaxRequests == 2

\* Request slots: a request, and the run it schedules, is known by the
\* order in which it arrived.
Ids == 1..(IF MaxAgents >= MaxRequests THEN MaxAgents ELSE MaxRequests)

\* Names tempfile.mkdtemp can hand out; a run calls it once, so one name per
\* run is enough.
DirNames == Ids

\* "no key": the request has not inserted its row
NoKey == 0

\* "no value": a NULL column, a Python None
NoneStr == "None"
NoDir == 0

\* ------------------------------------------------------------- url shapes
\* A string is a sequence of pieces; `pattern in url` is contiguous
\* containment of the pattern's pieces.
IsInfix(p, s) ==
    \E i \in 0..(Len(s) - Len(p)) :
        \A j \in 1..Len(p) : s[i + j] = p[j]

valid_patterns ==
    << <<"github.com", "/">>,
       <<"https://", "github.com", "/">>,
       <<"git@", "github.com", ":">> >>

\* Mutant of validate_repo_url: the url has to start with a pattern.
validate_repo_url_startswith(repo_url) ==
    IF repo_url = << >>
    THEN FALSE
    ELSE \E k \in DOMAIN valid_patterns :
            /\ Len(valid_patterns[k]) <= Len(repo_url)
            /\ SubSeq(repo_url, 1, Len(valid_patterns[k])) = valid_patterns[k]

validate_repo_url(repo_url) ==
    IF repo_url = << >>
    THEN FALSE
    ELSE \E k \in DOMAIN valid_patterns : IsInfix(valid_patterns[k], repo_url)

\* The requests clients submit (AgentCreate.repository_url and .branch): a
\* GitHub URL on the default branch and with an empty branch, a URL of
\* another host, an empty URL.
Requests ==
    { [repository_url |-> <<"https://", "github.com", "/", "acme/agent">>,
       branch |-> "main"],
      [repository_url |-> <<"git@", "github.com", ":", "acme/agent">>,
       branch |-> ""],
      [repository_url |-> <<"https://", "gitlab.com", "/", "acme/agent">>,
       branch |-> "main"],
      [repository_url |-> << >>, branch |-> "main"] }

\* ------------------------------------------------- the cloned tree's files
\* A text is the sequence of its words.  A file of the tree is absent,
\* present but unreadable (open/read raises), present with a text, or a name
\* whose open never returns: git checks out symbolic links as they are, and
\* the open of a link to a FIFO waits for a writer.
AbsentFile == [exists |-> FALSE, readable |-> FALSE, fifo |-> FALSE, text |-> << >>]
UnreadableFile == [exists |-> TRUE, readable |-> FALSE, fifo |-> FALSE, text |-> << >>]
TextFile(t) == [exists |-> TRUE, readable |-> TRUE, fifo |-> FALSE, text |-> t]
FifoFile == [exists |-> TRUE, readable |-> FALSE, fifo |-> TRUE, text |-> << >>]

\* In place of a classification: the call never returns, the call raised
\* RecursionError.
Hung == "never returns"
RecursionError == "RecursionError"

\* str.lower() on one word
LowerWord(w) ==
    CASE w = "LangChain" -> "langchain"
      [] w = "LangGraph" -> "langgraph"
      [] w = "CrewAI" -> "crewai"
      [] w = "AutoGPT" -> "autogpt"
      [] w = "Dependencies" -> "dependencies"
      [] OTHER -> w

lower(text) == [i \in DOMAIN text |-> LowerWord(text[i])]

\* The classifier's keywords that occur inside a word (`kw in text`).
KeywordsIn(w) ==
    CASE w = "langgraph" -> {"langgraph"}
      [] w = "langchain" -> {"langchain"}
      [] w = "langchain-core" -> {"langchain"}
      [] w = "crewai" -> {"crewai"}
      [] w = "autogpt" -> {"autogpt"}
      [] w = "pyproject" -> {"project"}
      [] w = "project" -> {"project"}
      [] w = "tool.poetry" -> {"tool.poetry"}
      [] w = "requires" -> {"requires"}
      [] w = "dependencies" -> {"dependencies"}
      [] w = "packages" -> {"package"}
      [] w = "package" -> {"package"}
      [] OTHER -> {}

Occurs(kw, text) == \E i \in DOMAIN text : kw \in KeywordsIn(text[i])

\* Priority order of the framework names.
priority == <<"langgraph", "langchain", "crewai", "autogpt">>

generic_markers == {"project", "tool.poetry", "requires", "dependencies", "package"}

\* Mutant of _classify_by_keywords: langchain is looked for before
\* langgraph.
_classify_by_keywords_langchain_first(text) ==
    IF Occurs("langchain", text) THEN "langchain"
    ELSE IF Occurs("langgraph", text) THEN "langgraph"
    ELSE IF Occurs("crewai", text) THEN "crewai"
    ELSE IF Occurs("autogpt", text) THEN "autogpt"
    ELSE IF \E k \in generic_markers : Occurs(k, text) THEN "custom"
    ELSE NoneStr

_classify_by_keywords(text) ==
    IF Occurs("langgraph", text) THEN "langgraph"
    ELSE IF Occurs("langchain", text) THEN "langchain"
    ELSE IF Occurs("crewai", text) THEN "crewai"
    ELSE IF Occurs("autogpt", text) THEN "autogpt"
    ELSE IF \E k \in generic_markers : Occurs(k, text) THEN "custom"
    ELSE NoneStr

\* Mutant of ReadAndClassify: a read error is not caught here and ends
\* detect_framework in its outer handler, which answers unknown.
ReadAndClassify_aborts(file) ==
    IF ~file.exists THEN NoneStr
    ELSE IF file.fifo THEN Hung
    ELSE IF ~file.readable THEN "unknown"
    ELSE _classify_by_keywords(lower(file.text))

\* open + read + lower + classify of one manifest; a missing file and a
\* read error both give None.  Nothing bounds the open and the read.
ReadAndClassify(file) ==
    IF ~file.exists THEN NoneStr
    ELSE IF file.fifo THEN Hung
    ELSE IF ~file.readable THEN NoneStr
    ELSE _classify_by_keywords(lower(file.text))

_detect_from_requirements(tree) == ReadAndClassify(tree.requirements)

_detect_from_pyproject(tree) == ReadAndClassify(tree.pyproject)

_detect_from_pipfile(tree) == ReadAndClassify(tree.pipfile)

\* json.loads accepts the text: here, a text enclosed in braces.
JsonParses(text) ==
    /\ Len(text) >= 2
    /\ text[1] = "{"
    /\ text[Len(text)] = "}"

\* json.dumps(json.loads(text)): string escapes come out decoded.
JsonUnescape(w) == IF w = "langcha\\u0069n" THEN "langchain" ELSE w

JsonRoundTrip(text) ==
    IF JsonParses(text)
    THEN lower([i \in DOMAIN text |-> JsonUnescape(text[i])])
    ELSE text

\* One lock file of the candidates list; is_pipfile_lock is
\* path.endswith("Pipfile.lock").
ClassifyLockfile(file, is_pipfile_lock) ==
    IF ~file.exists THEN NoneStr
    ELSE IF file.fifo THEN Hung
    ELSE IF ~file.readable THEN NoneStr
    ELSE IF is_pipfile_lock
         THEN _classify_by_keywords(JsonRoundTrip(lower(file.text)))
         ELSE _classify_by_keywords(lower(file.text))

_detect_from_lockfiles(tree) ==
    LET p == ClassifyLockfile(tree.poetry_lock, FALSE)
        u == ClassifyLockfile(tree.uv_lock, FALSE)
        l == ClassifyLockfile(tree.pipfile_lock, TRUE)
    IN  IF p # NoneStr THEN p
        ELSE IF u # NoneStr THEN u
        ELSE l

\* Import scan ceilings.
max_files == 500
max_lines == 200

\* The patterns ^\s*(from|import)\s+<name>(\.|\s|$) that match a line.
ImportsOf(line) ==
    CASE line = "import langgraph" -> {"langgraph"}
      [] line = "from langgraph.graph import StateGraph" -> {"langgraph"}
      [] line = "import langchain" -> {"langchain"}
      [] line = "  from langchain.llms import OpenAI" -> {"langchain"}
      [] line = "import crewai" -> {"crewai"}
      [] line = "from crewai import Crew" -> {"crewai"}
      [] line = "import autogpt" -> {"autogpt"}
      [] OTHER -> {}

\* The tree's files are listed in the order os.walk comes to them.  A file
\* has a .py name or not, lies under an ignored directory or not, can be
\* opened or not, is a link to a FIFO or not, and lies within the directory
\* depth the walk can recurse to or, too_deep, below it.  The ignored
\* directory above a too_deep file lies within that depth, where the walk
\* lists its parent and prunes it, or, ignored_below, below it as well.
Walked(files) == SelectSeq(files, LAMBDA f : f.py /\ ~f.ignored_dir)

\* The files below the depth os.walk can recurse to, outside the pruned
\* directories: on its way down to the first of them the walk raises
\* RecursionError.  A directory is pruned (dirs[:] = ...) when the walk lists
\* its parent: an ignored directory that lies below the depth itself is
\* never listed, and the walk raises on its way down to it.  Where os.walk
\* calls itself once per directory level (CPython up to 3.11) that depth is
\* the interpreter's recursion limit; where it does not, no file of any
\* tree is too_deep.
Beyond(files) ==
    { i \in DOMAIN files :
        /\ files[i].too_deep
        /\ files[i].ignored_dir => files[i].ignored_below }

\* The files the walk yields before it raises, all of them when it does not.
Reached(files) ==
    IF Beyond(files) = {} THEN files
    ELSE SubSeq(files, 1, (CHOOSE i \in Beyond(files) :
                              \A j \in Beyond(files) : i <= j) - 1)

FirstN(s, n) == IF Len(s) <= n THEN s ELSE SubSeq(s, 1, n)

FoundInFile(f) ==
    IF ~f.readable THEN {}
    ELSE UNION { ImportsOf(FirstN(f.lines, max_lines)[i]) :
                 i \in DOMAIN FirstN(f.lines, max_lines) }

\* The walk ends when max_files files are counted (raise StopIteration,
\* caught), when os.walk is exhausted, or when os.walk raises: only
\* StopIteration is caught around it, so RecursionError leaves the scan and
\* the matches found so far are dropped.  The open of a counted file that
\* is a link to a FIFO never returns.
_detect_from_imports(tree) ==
    LET walked == Walked(Reached(tree.files))
        scanned == FirstN(walked, max_files)
        found == UNION { FoundInFile(scanned[i]) : i \in DOMAIN scanned }
    IN  IF \E i \in DOMAIN scanned : scanned[i].fifo THEN Hung
        ELSE IF Len(walked) < max_files /\ Beyond(tree.files) # {} THEN RecursionError
        ELSE IF \E k \in DOMAIN priority : priority[k] \in found
        THEN priority[CHOOSE k \in DOMAIN priority :
                        /\ priority[k] \in found
                        /\ \A j \in 1..(k - 1) : priority[j] \notin found]
        ELSE NoneStr

\* Mutant of ClassifyTree: the import scan is consulted before the lock
\* files and a later named framework replaces an earlier custom.
ClassifyTree_named_first(tree) ==
    LET r == _detect_from_requirements(tree)
        p == _detect_from_pyproject(tree)
        f == _detect_from_pipfile(tree)
        l == _detect_from_lockfiles(tree)
        i == _detect_from_imports(tree)
        all == <<r, p, f, i, l>>
        named == { k \in DOMAIN all : all[k] \notin {NoneStr, "custom"} }
        some == { k \in DOMAIN all : all[k] # NoneStr }
    IN  IF named # {} THEN all[CHOOSE k \in named : \A j \in named : k <= j]
        ELSE IF some # {} THEN "custom"
        ELSE "unknown"

\* The chain `a or b or c or d or e or "unknown"` inside try / except
\* Exception: a source is called only when those before it gave None; a
\* source that raises (the import scan is the one that can) makes the label
\* unknown, and a source that never returns leaves no label at all (Hung).
ClassifyTree(tree) ==
    LET r == _detect_from_requirements(tree)
        p == _detect_from_pyproject(tree)
        f == _detect_from_pipfile(tree)
        l == _detect_from_lockfiles(tree)
        i == _detect_from_imports(tree)
    IN  IF r # NoneStr THEN r
        ELSE IF p # NoneStr THEN p
        ELSE IF f # NoneStr THEN f
        ELSE IF l # NoneStr THEN l
        ELSE IF i = RecursionError THEN "unknown"
        ELSE IF i # NoneStr THEN i
        ELSE "unknown"

\* How `git rev-parse HEAD` can end: exit 0, a non-zero exit
\* (CalledProcessError), or the process cannot be started (OSError).
RevParseOutcomes == {"ok", "nonzero", "oserror"}

\* detect_framework returns (framework, commit_hash), raises, or never
\* returns.  Only CalledProcessError is caught around the revision lookup;
\* the classification ends with a label or hangs in a file read.
detect_framework(tree, revparse) ==
    IF revparse = "oserror"
    THEN [raises |-> "OSError", hangs |-> FALSE,
          framework |-> NoneStr, commit_hash |-> NoneStr]
    ELSE IF ClassifyTree(tree) = Hung
    THEN [raises |-> NoneStr, hangs |-> TRUE,
          framework |-> NoneStr, commit_hash |-> NoneStr]
    ELSE [raises |-> NoneStr, hangs |-> FALSE,
          framework |-> ClassifyTree(tree),
          commit_hash |-> IF revparse = "ok" THEN tree.head ELSE NoneStr]

EmptyTree ==
    [head |-> "sha1",
     requirements |-> AbsentFile, pyproject |-> AbsentFile, pipfile |-> AbsentFile,
     poetry_lock |-> AbsentFile, uv_lock |-> AbsentFile, pipfile_lock |-> AbsentFile,
     files |-> << >>]

PyFile(ls) == [py |-> TRUE, ignored_dir |-> FALSE, readable |-> TRUE,
               fifo |-> FALSE, too_deep |-> FALSE, ignored_below |-> FALSE,
               lines |-> ls]

\* Trees a clone can bring: a requirements.txt naming LangChain.  A clone
\* that fails has written all of it, a part or nothing.
Trees ==
    { [EmptyTree EXCEPT !.requirements = TextFile(<<"LangChain", "requests">>)] }

\* ------------------------------------------------------------------ state
VARIABLES
    agents,      \* the agents table: primary key -> row, for the rows that exist
    next_id,     \* the next value of the key sequence (rows inserted so far + 1)
    engine,      \* how the store picks primary keys, once it has shown:
                 \* "sequence", "rowid", or "any" while both agree
    key,         \* per request, agent.id of the row it inserted (NoKey: none);
                 \* the run scheduled by the request is given this key
    pc,          \* where request a and then its background run stand
    loaded,      \* the run's `agent` object: the url and branch it has read,
                 \* and the status it holds as loaded (Expired after a commit)
    session,     \* the run's database session: "active" or "needs_rollback"
    in_transaction,  \* per run, a transaction is open on its session: a read
                 \* began one and no commit has ended it since
    repo_path,   \* the run's local repo_path (NoDir is None)
    result,      \* the run's locals framework, commit_hash
    exc,         \* the exception the run's `except Exception` caught
    escaped,     \* the exception that left the run uncaught
    fs,          \* temporary directories on disk: name -> tree
    made,        \* every directory mkdtemp created: name -> the run that made it
    rm_calls,    \* per run, its shutil.rmtree calls: the path, and whether
                 \* the tree was gone afterwards
    validated,   \* per run, the urls validate_repo_url accepted
    clone_args,  \* per run, the url and branch given to the clone process
    hist         \* per request, the statuses it and its run wrote to the
                 \* store, in order

vars == <<agents, next_id, engine, key, pc, loaded, session, in_transaction,
          repo_path, result,
          exc, escaped, fs, made, rm_calls, validated, clone_args, hist>>

NoArgs == [repo_url |-> << >>, branch |-> NoneStr, spawned |-> FALSE]
NoResult == [framework |-> NoneStr, commit_hash |-> NoneStr]
NoRow == [repository_url |-> << >>, branch |-> NoneStr, status |-> NoneStr]

\* The object's columns are expired (Session.commit with expire_on_commit):
\* nothing is held as loaded and the next read loads the row.
Expired == "expired"

Init ==
    /\ agents = << >>
    /\ next_id = 1
    /\ engine = "any"
    /\ key = [a \in Ids |-> NoKey]
    /\ pc = [a \in Ids |-> "idle"]
    /\ loaded = [a \in Ids |-> NoRow]
    /\ session = [a \in Ids |-> "active"]
    /\ in_transaction = [a \in Ids |-> FALSE]
    /\ repo_path = [a \in Ids |-> NoDir]
    /\ result = [a \in Ids |-> NoResult]
    /\ exc = [a \in Ids |-> NoneStr]
    /\ escaped = [a \in Ids |-> NoneStr]
    /\ fs = << >>
    /\ made = << >>
    /\ rm_calls = [a \in Ids |-> << >>]
    /\ validated = [a \in Ids |-> {}]
    /\ clone_args = [a \in Ids |-> NoArgs]
    /\ hist = [a \in Ids |-> << >>]

\* A row with the key held by request / run a is in the table.
Exists(a) == key[a] \in DOMAIN agents

Without(f, k) == [x \in (DOMAIN f) \ {k} |-> f[x]]

\* --------------------------------------------------------- HTTP handlers
\* How the store can pick the key of a new row.  models/agent.py declares
\* `id` an Integer primary key and leaves the rest to the engine behind
\* DATABASE_URL: a sequence never gives a key twice; a rowid table (SQLite)
\* gives one more than the largest key in the table, which is the key of a
\* deleted last row again.
Engines == {"sequence", "rowid"}

LargestKey == IF DOMAIN agents = {} THEN NoKey
              ELSE CHOOSE k \in DOMAIN agents : \A j \in DOMAIN agents : j <= k

NewKey(e) == IF e = "sequence" THEN next_id ELSE LargestKey + 1

\* POST /api/agents, up to db.commit(): insert a pending row.  Request
\* slots are taken in order.
create_agent(a, repository_url, branch, e) ==
    /\ pc[a] = "idle"
    /\ \A b \in Ids : b < a => pc[b] # "idle"
    /\ engine \in {"any", e}
    /\ engine' = IF NewKey("sequence") = NewKey("rowid") THEN engine ELSE e
    /\ agents' = agents @@ (NewKey(e) :>
                   [repository_url |-> repository_url,
                    branch |-> branch,
                    status |-> "pending",
                    framework |-> NoneStr,
                    commit_hash |-> NoneStr])
    /\ key' = [key EXCEPT ![a] = NewKey(e)]
    /\ hist' = [hist EXCEPT ![a] = <<"pending">>]
    /\ pc' = [pc EXCEPT ![a] = "inserted"]
    /\ next_id' = next_id + 1
    /\ UNCHANGED <<loaded, session, in_transaction, repo_path, result, exc, escaped,
                   fs, made, rm_calls, validated, clone_args>>

\* POST /api/agents, from db.refresh(agent): the row is read back by its
\* key; when it is gone, or the read fails, the handler raises and no run
\* is scheduled.  Otherwise background_tasks.add_task schedules the run.
create_agent_refresh(a, ok) ==
    /\ pc[a] = "inserted"
    /\ pc' = [pc EXCEPT ![a] = IF ok /\ Exists(a) THEN "scheduled" ELSE "unscheduled"]
    /\ UNCHANGED <<agents, next_id, engine, key, loaded, session, in_transaction, repo_path, result,
                   exc, escaped, fs, made, rm_calls, validated, clone_args, hist>>

\* DELETE /api/agents/{agent_id}: remove the row, whatever its status.
delete_agent(k) ==
    /\ k \in DOMAIN agents
    /\ agents' = Without(agents, k)
    /\ UNCHANGED <<next_id, engine, key, pc, loaded, session, in_transaction, repo_path, result,
                   exc, escaped, fs, made, rm_calls, validated, clone_args, hist>>

\* ------------------------------------------------------- the record store
\* agent.status = ...; db.commit(): the flush issues an UPDATE of the
\* columns whose assigned value differs from the one the object holds as
\* loaded.  Assigning the status the object was loaded with is no change
\* and no UPDATE is issued; on an expired object every assignment is a
\* change.  framework and commit_hash are only assigned together with
\* detected, on an object the commit of detecting has expired.
NetChange(a, fields) == loaded[a].status # fields.status

\* db.commit() of a run goes through when the store accepts it (ok), the
\* session is not left in a failed transaction by an earlier commit that
\* raised (the run never calls db.rollback()) and, when there is an UPDATE
\* to issue, the row is still there (else the UPDATE matches no row).
CommitGoesThrough(a, fields, ok) ==
    /\ ok
    /\ session[a] = "active"
    /\ NetChange(a, fields) => Exists(a)

\* The effect of a commit of run a that went through after `fields` were
\* assigned: the UPDATE, when there is one, the transaction ended and the
\* object expired.
Persist(a, fields) ==
    /\ IF NetChange(a, fields)
       THEN /\ agents' = [agents EXCEPT ![key[a]] =
                            [k \in DOMAIN agents[key[a]] |->
                                IF k \in DOMAIN fields THEN fields[k]
                                ELSE agents[key[a]][k]]]
            /\ hist' = [hist EXCEPT ![a] = Append(@, fields.status)]
       ELSE UNCHANGED <<agents, hist>>
    /\ loaded' = [loaded EXCEPT ![a].status = Expired]
    /\ in_transaction' = [in_transaction EXCEPT ![a] = FALSE]

\* A commit that raises: nothing is written, the transaction is rolled
\* back on the way out, the exception goes to the run's handler and the
\* session needs a rollback from then on.
CommitRaises(a) ==
    /\ session' = [session EXCEPT ![a] = "needs_rollback"]
    /\ in_transaction' = [in_transaction EXCEPT ![a] = FALSE]
    /\ exc' = [exc EXCEPT ![a] = "CommitError"]
    /\ pc' = [pc EXCEPT ![a] = "except"]
    /\ UNCHANGED <<agents, hist, loaded>>

\* ------------------------------------------------------------ file system
\* tempfile.mkdtemp: a directory name never handed out before.  A run calls
\* it at most once, so the name it gets is written as the run's own number.
mkdtemp(a) == CHOOSE d \in DirNames : d = a

\* The directory run a made.
temp_dir(a) == CHOOSE d \in DOMAIN made : made[d] = a

\* The elements of sequence s at the positions in I, in their order.
Pick(s, I) ==
    LET F[i \in 0..Len(s)] ==
            IF i = 0 THEN << >>
            ELSE IF i \in I THEN Append(F[i - 1], s[i]) ELSE F[i - 1]
    IN  F[Len(s)]

\* What a removal that fails can leave of a tree: the directory with any
\* part of its manifests, lock files and source files, all of them or none.
Remains(tree) ==
    { [f \in DOMAIN tree |->
          IF f = "head" THEN tree.head
          ELSE IF f = "files" THEN Pick(tree.files, I)
          ELSE IF f \in K THEN tree[f] ELSE AbsentFile] :
        K \in SUBSET { f \in (DOMAIN tree) \ {"head", "files"} : tree[f].exists },
        I \in SUBSET DOMAIN tree.files }

\* shutil.rmtree(path, ignore_errors=True) on the file system `files`, as
\* the set of file systems it can leave: the tree is gone when the removal
\* works; when it does not, silently, the directory stays with what the
\* removal did not get to.
rmtree(files, path, rm_ok) ==
    IF path \notin DOMAIN files THEN {files}
    ELSE IF rm_ok THEN {Without(files, path)}
    ELSE { [files EXCEPT ![path] = t] : t \in Remains(files[path]) }

\* FrameworkDetector.cleanup
cleanup(files, path, rm_ok) == rmtree(files, path, rm_ok)

\* How subprocess.run of the clone can end: exit 0, a non-zero exit
\* (CalledProcessError), the 600 s timeout (TimeoutExpired), the process
\* cannot be started at all (OSError, e.g. no git executable), or the
\* process ran, with any exit status, and its captured output cannot be
\* decoded as text (UnicodeDecodeError).
CloneOutcomes == {"ok", "nonzero", "timeout", "oserror", "undecodable"}

\* -------------------------------------------- process_agent_deployment(a)
\* Mutant of lookup: the run goes on without the `if not agent: return`.
lookup_without_return(a, ok) ==
    /\ pc[a] = "scheduled"
    /\ IF ~ok
       THEN /\ escaped' = [escaped EXCEPT ![a] = "QueryError"]
            /\ pc' = [pc EXCEPT ![a] = "close"]
            /\ UNCHANGED loaded
       ELSE /\ loaded' = [loaded EXCEPT ![a] =
                            IF Exists(a)
                            THEN [repository_url |-> agents[key[a]].repository_url,
                                  branch |-> agents[key[a]].branch,
                                  status |-> agents[key[a]].status]
                            ELSE @]
            /\ pc' = [pc EXCEPT ![a] = "set_cloning"]
            /\ UNCHANGED escaped
    /\ in_transaction' = [in_transaction EXCEPT ![a] = TRUE]
    /\ UNCHANGED <<agents, next_id, engine, key, session, repo_path, result, exc,
                   fs, made, rm_calls, validated, clone_args, hist>>

\* SessionLocal(), the query for the record, `if not agent: return`.  A
\* query the store fails raises out of the run: the query is outside the
\* inner try, whose handler and cleanup are not reached.  The query begins
\* a transaction on the session, and every way out of here passes the
\* db.close() of the outer finally.
lookup(a, ok) ==
    /\ pc[a] = "scheduled"
    /\ IF ~ok
       THEN /\ escaped' = [escaped EXCEPT ![a] = "QueryError"]
            /\ pc' = [pc EXCEPT ![a] = "close"]
            /\ UNCHANGED loaded
       ELSE IF Exists(a)
       THEN /\ loaded' = [loaded EXCEPT ![a] =
                            [repository_url |-> agents[key[a]].repository_url,
                             branch |-> agents[key[a]].branch,
                             status |-> agents[key[a]].status]]
            /\ pc' = [pc EXCEPT ![a] = "set_cloning"]
            /\ UNCHANGED escaped
       ELSE /\ pc' = [pc EXCEPT ![a] = "close"]
            /\ UNCHANGED <<loaded, escaped>>
    /\ in_transaction' = [in_transaction EXCEPT ![a] = TRUE]
    /\ UNCHANGED <<agents, next_id, engine, key, session, repo_path, result, exc,
                   fs, made, rm_calls, validated, clone_args, hist>>

\* agent.status = "cloning"; db.commit()
set_cloning(a, ok) ==
    /\ pc[a] = "set_cloning"
    /\ IF CommitGoesThrough(a, [status |-> "cloning"], ok)
       THEN /\ Persist(a, [status |-> "cloning"])
            /\ pc' = [pc EXCEPT ![a] = "validate"]
            /\ UNCHANGED <<session, exc>>
       ELSE CommitRaises(a)
    /\ UNCHANGED <<next_id, engine, key, repo_path, result, escaped,
                   fs, made, rm_calls, validated, clone_args>>

\* The column values of the row run a's key names now.
Reloaded(a) == [repository_url |-> agents[key[a]].repository_url,
                branch |-> agents[key[a]].branch,
                status |-> agents[key[a]].status]

\* Mutant of validate: the check is made but a rejected url does not raise.
validate_no_raise(a, ok) ==
    /\ pc[a] = "validate"
    /\ IF ~Exists(a) \/ ~ok
       THEN /\ exc' = [exc EXCEPT ![a] = IF Exists(a) THEN "ReloadError"
                                                      ELSE "ObjectDeleted"]
            /\ pc' = [pc EXCEPT ![a] = "except"]
            /\ UNCHANGED <<loaded, validated>>
       ELSE /\ loaded' = [loaded EXCEPT ![a] = Reloaded(a)]
            /\ pc' = [pc EXCEPT ![a] = "clone"]
            /\ validated' = [validated EXCEPT ![a] =
                                IF validate_repo_url(Reloaded(a).repository_url)
                                THEN @ \cup {Reloaded(a).repository_url} ELSE @]
            /\ UNCHANGED exc
    /\ in_transaction' = [in_transaction EXCEPT ![a] = TRUE]
    /\ UNCHANGED <<agents, next_id, engine, key, session, repo_path, result, escaped,
                   fs, made, rm_calls, clone_args, hist>>

\* if not detector.validate_repo_url(agent.repository_url): raise.
\* The commit before expired the object, so reading the attribute reloads
\* the row by its key, in a new transaction: the run validates, and then
\* clones, what the row holds now.  The reload raises when the row is gone
\* or the read fails.
validate(a, ok) ==
    /\ pc[a] = "validate"
    /\ IF ~Exists(a) \/ ~ok
       THEN /\ exc' = [exc EXCEPT ![a] = IF Exists(a) THEN "ReloadError"
                                                      ELSE "ObjectDeleted"]
            /\ pc' = [pc EXCEPT ![a] = "except"]
            /\ UNCHANGED <<loaded, validated>>
       ELSE IF validate_repo_url(Reloaded(a).repository_url)
       THEN /\ loaded' = [loaded EXCEPT ![a] = Reloaded(a)]
            /\ pc' = [pc EXCEPT ![a] = "clone"]
            /\ validated' = [validated EXCEPT ![a] = @ \cup {Reloaded(a).repository_url}]
            /\ UNCHANGED exc
       ELSE /\ loaded' = [loaded EXCEPT ![a] = Reloaded(a)]
            /\ exc' = [exc EXCEPT ![a] = "InvalidUrl"]
            /\ pc' = [pc EXCEPT ![a] = "except"]
            /\ UNCHANGED validated
    /\ in_transaction' = [in_transaction EXCEPT ![a] = TRUE]
    /\ UNCHANGED <<agents, next_id, engine, key, session, repo_path, result, escaped,
                   fs, made, rm_calls, clone_args, hist>>

\* repo_path = detector.clone_repo(agent.repository_url, agent.branch), up
\* to temp_dir = tempfile.mkdtemp(...): the directory is made, or mkdtemp
\* raises and none is.
clone_mkdtemp(a, ok) ==
    /\ pc[a] = "clone"
    /\ IF ok
       THEN /\ made' = made @@ (mkdtemp(a) :> a)
            /\ fs' = fs @@ (mkdtemp(a) :> EmptyTree)
            /\ pc' = [pc EXCEPT ![a] = "clone_run"]
            /\ UNCHANGED exc
       ELSE /\ exc' = [exc EXCEPT ![a] = "MkdtempError"]
            /\ pc' = [pc EXCEPT ![a] = "except"]
            /\ UNCHANGED <<made, fs>>
    /\ UNCHANGED <<agents, next_id, engine, key, loaded, session, in_transaction, repo_path, result,
                   escaped, rm_calls, validated, clone_args, hist>>

\* clone_repo from subprocess.run on: the clone process ends, and the two
\* except clauses of clone_repo remove the directory before raising.  Any
\* other exception of subprocess.run leaves clone_repo without the removal:
\* the directory stays, empty when no process ran, with whatever the process
\* wrote, all of the tree or a part, when its output could not be decoded.
\* A process that fails or is timed out may have written into the directory
\* before the removal.
clone_repo(a, outcome, tree, rm_ok) ==
    /\ pc[a] = "clone_run"
    /\ clone_args' = [clone_args EXCEPT ![a] =
                        [repo_url |-> loaded[a].repository_url,
                         branch |-> loaded[a].branch,
                         spawned |-> outcome # "oserror"]]
    /\ CASE outcome = "ok" ->
             /\ fs' = [fs EXCEPT ![temp_dir(a)] = tree]
             /\ repo_path' = [repo_path EXCEPT ![a] = temp_dir(a)]
             /\ pc' = [pc EXCEPT ![a] = "set_detecting"]
             /\ UNCHANGED <<exc, rm_calls>>
         [] outcome \in {"nonzero", "timeout"} ->
             /\ fs' \in UNION { rmtree([fs EXCEPT ![temp_dir(a)] = t], temp_dir(a), rm_ok) :
                                t \in Remains(tree) }
             /\ rm_calls' = [rm_calls EXCEPT ![a] =
                               Append(@, [path |-> temp_dir(a), removed |-> rm_ok])]
             /\ exc' = [exc EXCEPT ![a] =
                          IF outcome = "nonzero" THEN "CloneFailed"
                                                 ELSE "CloneTimeout"]
             /\ pc' = [pc EXCEPT ![a] = "except"]
             /\ UNCHANGED repo_path
         [] outcome = "undecodable" ->
             /\ fs' \in { [fs EXCEPT ![temp_dir(a)] = t] : t \in Remains(tree) }
             /\ exc' = [exc EXCEPT ![a] = "CloneDecodeError"]
             /\ pc' = [pc EXCEPT ![a] = "except"]
             /\ UNCHANGED <<repo_path, rm_calls>>
         [] OTHER ->
             /\ exc' = [exc EXCEPT ![a] = "CloneOSError"]
             /\ pc' = [pc EXCEPT ![a] = "except"]
             /\ UNCHANGED <<fs, repo_path, rm_calls>>
    /\ UNCHANGED <<agents, next_id, engine, key, loaded, session, in_transaction, result, escaped,
                   made, validated, hist>>

\* agent.status = "detecting"; db.commit()
set_detecting(a, ok) ==
    /\ pc[a] = "set_detecting"
    /\ IF CommitGoesThrough(a, [status |-> "detecting"], ok)
       THEN /\ Persist(a, [status |-> "detecting"])
            /\ pc' = [pc EXCEPT ![a] = "detect"]
            /\ UNCHANGED <<session, exc>>
       ELSE CommitRaises(a)
    /\ UNCHANGED <<next_id, engine, key, repo_path, result, escaped,
                   fs, made, rm_calls, validated, clone_args>>

\* framework, commit_hash = detector.detect_framework(repo_path).  When a
\* file read of the classification never returns the run stays in the call.
run_detect(a, revparse) ==
    /\ pc[a] = "detect"
    /\ repo_path[a] \in DOMAIN fs
    /\ LET r == detect_framework(fs[repo_path[a]], revparse)
       IN  IF r.raises # NoneStr
           THEN /\ exc' = [exc EXCEPT ![a] = "RevParseOSError"]
                /\ pc' = [pc EXCEPT ![a] = "except"]
                /\ UNCHANGED result
           ELSE IF r.hangs
           THEN /\ pc' = [pc EXCEPT ![a] = "hung_reading"]
                /\ UNCHANGED <<result, exc>>
           ELSE /\ result' = [result EXCEPT ![a] =
                                [framework |-> r.framework,
                                 commit_hash |-> r.commit_hash]]
                /\ pc' = [pc EXCEPT ![a] = "set_detected"]
                /\ UNCHANGED exc
    /\ UNCHANGED <<agents, next_id, engine, key, loaded, session, in_transaction, repo_path, escaped,
                   fs, made, rm_calls, validated, clone_args, hist>>

\* agent.framework = framework; agent.commit_hash = commit_hash;
\* agent.status = "detected"; db.commit()
set_detected(a, ok) ==
    /\ pc[a] = "set_detected"
    /\ IF CommitGoesThrough(a, [status |-> "detected"], ok)
       THEN /\ Persist(a, [framework |-> result[a].framework,
                           commit_hash |-> result[a].commit_hash,
                           status |-> "detected"])
            /\ pc' = [pc EXCEPT ![a] = "finally"]
            /\ UNCHANGED <<session, exc>>
       ELSE CommitRaises(a)
    /\ UNCHANGED <<next_id, engine, key, repo_path, result, escaped,
                   fs, made, rm_calls, validated, clone_args>>

\* Mutant of handle_exception: the handler writes the object it holds back
\* with an upsert, so a row deleted meanwhile is inserted again.
handle_exception_upserts(a, ok) ==
    /\ pc[a] = "except"
    /\ IF ok /\ session[a] = "active"
       THEN /\ agents' = [k \in (DOMAIN agents) \cup {key[a]} |->
                            IF k = key[a]
                            THEN [repository_url |-> loaded[a].repository_url,
                                  branch |-> loaded[a].branch,
                                  status |-> "failed",
                                  framework |-> NoneStr,
                                  commit_hash |-> NoneStr]
                            ELSE agents[k]]
            /\ hist' = [hist EXCEPT ![a] = Append(@, "failed")]
            /\ loaded' = [loaded EXCEPT ![a].status = Expired]
            /\ in_transaction' = [in_transaction EXCEPT ![a] = FALSE]
            /\ pc' = [pc EXCEPT ![a] = "except_print"]
            /\ UNCHANGED <<session, escaped>>
       ELSE /\ session' = [session EXCEPT ![a] = "needs_rollback"]
            /\ in_transaction' = [in_transaction EXCEPT ![a] = FALSE]
            /\ escaped' = [escaped EXCEPT ![a] = "CommitError"]
            /\ pc' = [pc EXCEPT ![a] = "finally"]
            /\ UNCHANGED <<agents, hist, loaded>>
    /\ UNCHANGED <<next_id, engine, key, repo_path, result, exc,
                   fs, made, rm_calls, validated, clone_args>>

\* except Exception: agent.status = "failed"; db.commit().  A commit that
\* raised in the try body rolled the transaction back and discarded what the
\* object held, and without db.rollback() the session refuses this commit
\* too; a commit that raises here leaves the handler uncaught, before its
\* print.  Only the status is ever written here, and not even that when
\* the object was loaded with failed.
handle_exception(a, ok) ==
    /\ pc[a] = "except"
    /\ IF CommitGoesThrough(a, [status |-> "failed"], ok)
       THEN /\ Persist(a, [status |-> "failed"])
            /\ pc' = [pc EXCEPT ![a] = "except_print"]
            /\ UNCHANGED <<session, escaped>>
       ELSE /\ session' = [session EXCEPT ![a] = "needs_rollback"]
            /\ in_transaction' = [in_transaction EXCEPT ![a] = FALSE]
            /\ escaped' = [escaped EXCEPT ![a] = "CommitError"]
            /\ pc' = [pc EXCEPT ![a] = "finally"]
            /\ UNCHANGED <<agents, hist, loaded>>
    /\ UNCHANGED <<next_id, engine, key, repo_path, result, exc,
                   fs, made, rm_calls, validated, clone_args>>

\* The handler's print, after its commit: getattr(agent, 'agent_id', ...)
\* reads a column of the object the commit expired, which reloads the row
\* in a new transaction.
\* When the row is gone by then, or the read fails, the reload raises and
\* the exception leaves the handler uncaught, "failed" being committed.
handle_exception_print(a, ok) ==
    /\ pc[a] = "except_print"
    /\ escaped' = [escaped EXCEPT ![a] =
                     IF ok /\ Exists(a) THEN @ ELSE "ReloadError"]
    /\ pc' = [pc EXCEPT ![a] = "finally"]
    /\ in_transaction' = [in_transaction EXCEPT ![a] = TRUE]
    /\ UNCHANGED <<agents, next_id, engine, key, loaded, session, repo_path, result,
                   exc, fs, made, rm_calls, validated, clone_args, hist>>

\* Mutant of finally_cleanup: the cleanup sits at the end of the try body
\* instead of in a finally clause, so it is skipped after an exception.
finally_cleanup_on_success_only(a, rm_ok) ==
    /\ pc[a] = "finally"
    /\ IF repo_path[a] # NoDir /\ exc[a] = NoneStr
       THEN /\ fs' \in cleanup(fs, repo_path[a], rm_ok)
            /\ rm_calls' = [rm_calls EXCEPT ![a] =
                              Append(@, [path |-> repo_path[a],
                                         removed |-> repo_path[a] \notin DOMAIN fs'])]
       ELSE UNCHANGED <<fs, rm_calls>>
    /\ pc' = [pc EXCEPT ![a] = IF in_transaction[a] THEN "close" ELSE "done"]
    /\ UNCHANGED <<agents, next_id, engine, key, loaded, session, in_transaction, repo_path, result, exc,
                   escaped, made, validated, clone_args, hist>>

\* finally: if repo_path: detector.cleanup(repo_path), and from there to
\* db.close(): with no transaction open on the session the close sends
\* nothing to the store and the run has ended.
finally_cleanup(a, rm_ok) ==
    /\ pc[a] = "finally"
    /\ IF repo_path[a] # NoDir
       THEN /\ fs' \in cleanup(fs, repo_path[a], rm_ok)
            /\ rm_calls' = [rm_calls EXCEPT ![a] =
                              Append(@, [path |-> repo_path[a],
                                         removed |-> repo_path[a] \notin DOMAIN fs'])]
       ELSE UNCHANGED <<fs, rm_calls>>
    /\ pc' = [pc EXCEPT ![a] = IF in_transaction[a] THEN "close" ELSE "done"]
    /\ UNCHANGED <<agents, next_id, engine, key, loaded, session, in_transaction, repo_path, result, exc,
                   escaped, made, validated, clone_args, hist>>

\* finally: db.close() with a transaction open: the session rolls it back.
\* A ROLLBACK the store fails raises out of the outer finally, in place of
\* what was on its way out of the run.
close_session(a, ok) ==
    /\ pc[a] = "close"
    /\ in_transaction[a]
    /\ in_transaction' = [in_transaction EXCEPT ![a] = FALSE]
    /\ escaped' = [escaped EXCEPT ![a] = IF ok THEN @ ELSE "CloseError"]
    /\ pc' = [pc EXCEPT ![a] = "done"]
    /\ UNCHANGED <<agents, next_id, engine, key, loaded, session, repo_path, result,
                   exc, fs, made, rm_calls, validated, clone_args, hist>>

\* The positions of a run at a call nothing bounds: the store calls (the
\* query, the commits, the reloads of an expired object, the rollback of
\* db.close()) and detect_framework, whose `git rev-parse` is run without a timeout and
\* whose file reads wait for what they open.  The clone process has a
\* timeout; mkdtemp and rmtree work on the local temporary directory.
HangPoints ==
    {"scheduled", "set_cloning", "validate", "set_detecting", "detect",
     "set_detected", "except", "except_print", "close"}

\* The call run a is at never returns: the run stays in it.
hangs(a) ==
    /\ pc[a] \in HangPoints
    /\ pc' = [pc EXCEPT ![a] = "hung"]
    /\ UNCHANGED <<agents, next_id, engine, key, loaded, session, in_transaction, repo_path, result,
                   exc, escaped, fs, made, rm_calls, validated, clone_args, hist>>

\* ---------------------------------------------------------- specification
\* One step of the run given to request a.  The run is a background task
\* made of straight-line blocking calls: a run that has a step left takes
\* it, and the call it makes returns, raises or never returns.
RunStep(a) ==
    \/ hangs(a)
    \/ \E ok \in BOOLEAN : lookup(a, ok)
    \/ \E ok \in BOOLEAN : set_cloning(a, ok)
    \/ \E ok \in BOOLEAN : validate(a, ok)
    \/ \E ok \in BOOLEAN : clone_mkdtemp(a, ok)
    \/ \E o \in CloneOutcomes, t \in Trees, rm_ok \in BOOLEAN : clone_repo(a, o, t, rm_ok)
    \/ \E ok \in BOOLEAN : set_detecting(a, ok)
    \/ \E r \in RevParseOutcomes : run_detect(a, r)
    \/ \E ok \in BOOLEAN : set_detected(a, ok)
    \/ \E ok \in BOOLEAN : handle_exception(a, ok)
    \/ \E ok \in BOOLEAN : handle_exception_print(a, ok)
    \/ \E rm_ok \in BOOLEAN : finally_cleanup(a, rm_ok)
    \/ \E ok \in BOOLEAN : close_session(a, ok)

\* The requests the service is given, at most MaxAgents POSTs, and the runs
\* they schedule.
Next ==
    \/ \E a \in 1..MaxAgents, q \in Requests, e \in Engines :
          create_agent(a, q.repository_url, q.branch, e)
    \/ \E a \in Ids, ok \in BOOLEAN : create_agent_refresh(a, ok)
    \/ \E k \in Ids : delete_agent(k)
    \/ \E a \in Ids, ok \in BOOLEAN : lookup(a, ok)
    \/ \E a \in Ids, ok \in BOOLEAN : set_cloning(a, ok)
    \/ \E a \in Ids, ok \in BOOLEAN : validate(a, ok)
    \/ \E a \in Ids, ok \in BOOLEAN : clone_mkdtemp(a, ok)
    \/ \E a \in Ids, o \in CloneOutcomes, t \in Trees, rm_ok \in BOOLEAN :
          clone_repo(a, o, t, rm_ok)
    \/ \E a \in Ids, ok \in BOOLEAN : set_detecting(a, ok)
    \/ \E a \in Ids, r \in RevParseOutcomes : run_detect(a, r)
    \/ \E a \in Ids, ok \in BOOLEAN : set_detected(a, ok)
    \/ \E a \in Ids, ok \in BOOLEAN : handle_exception(a, ok)
    \/ \E a \in Ids, ok \in BOOLEAN : handle_exception_print(a, ok)
    \/ \E a \in Ids, rm_ok \in BOOLEAN : finally_cleanup(a, rm_ok)
    \/ \E a \in Ids, ok \in BOOLEAN : close_session(a, ok)

\* A run in a call that never returns is a run that takes no further step,
\* which every behaviour of Next may do at any point: what holds of the
\* states and steps of Spec holds with hanging calls too.
Spec == Init /\ [][Next]_vars

\* The same with the calls that never return as steps of their own, for
\* what has to happen eventually: the task of a run is scheduled as long as
\* it has a step to take, and that is all the scheduling gives; whether a
\* call returns is up to the store, to git and to the files.
FairNext ==
    \/ Next
    \/ \E a \in Ids : hangs(a)

FairSpec == Init /\ [][FairNext]_vars /\ \A a \in Ids : WF_vars(RunStep(a))

\* ------------------------------------- detection over a range of workspaces
\* Longest manifest text (in words) of the workspaces below.
MaxTextLen == 2

\* The manifest and lock files detect_framework opens, in its order.
FileSlots ==
    <<"requirements", "pyproject", "pipfile", "poetry_lock", "uv_lock", "pipfile_lock">>

\* Words of a manifest: framework names in several spellings, a generic
\* marker, a package that is neither, and a name spelt with a JSON escape.
Words ==
    {"langgraph", "LangChain", "CrewAI", "autogpt", "Dependencies", "requests",
     "langcha\\u0069n"}

TextsUpTo(n) == UNION { [1..k -> Words] : k \in 0..n }

\* The text as the body of a JSON object.
Braced(t) == <<"{">> \o t \o <<"}">>

\* Workspaces holding one manifest or lock file, with any text.
ManifestTrees ==
    { [EmptyTree EXCEPT ![FileSlots[s]] = TextFile(t)] :
        s \in DOMAIN FileSlots,
        t \in TextsUpTo(MaxTextLen) \cup { Braced(x) : x \in TextsUpTo(MaxTextLen) } }

\* What one manifest or lock file of a workspace can be.
FileChoices ==
    { AbsentFile, UnreadableFile,
      TextFile(<<"LangChain">>), TextFile(<<"packages">>) }

\* Workspaces with every combination of manifests and lock files, with and
\* without a source file importing crewai.
SourceTrees ==
    { [head |-> "sha1",
       requirements |-> r, pyproject |-> p, pipfile |-> f,
       poetry_lock |-> pl, uv_lock |-> ul, pipfile_lock |-> ll,
       files |-> fl] :
        r \in FileChoices, p \in FileChoices, f \in FileChoices,
        pl \in FileChoices, ul \in FileChoices, ll \in FileChoices,
        fl \in { << >>, <<PyFile(<<"import crewai">>)>> } }

\* n source files without imports.
Fillers(n) == [i \in 1..n |-> PyFile(<<"x = 1">>)]

\* A source file whose line p is `line`, after p - 1 other lines.
ImportAt(line, p) == PyFile([i \in 1..p |-> IF i = p THEN line ELSE "x = 1"])

\* Workspaces without manifests, around the two ceilings of the import scan:
\* a source file with an import on its first line, on line max_lines or on
\* the line after, walked first, as file number max_files or as the one
\* after; before it nothing, a file importing crewai, files the scan skips
\* (no .py name, under an ignored directory) or a file that cannot be
\* opened; after it nothing or a file importing autogpt.
ScanTrees ==
    { [EmptyTree EXCEPT !.files = front \o Fillers(k) \o <<ImportAt(line, p)>> \o back] :
        front \in { << >>,
                    <<PyFile(<<"import crewai">>)>>,
                    <<[PyFile(<<"import langgraph">>) EXCEPT !.py = FALSE],
                      [PyFile(<<"import langgraph">>) EXCEPT !.ignored_dir = TRUE]>>,
                    <<[PyFile(<<"import langgraph">>) EXCEPT !.readable = FALSE]>> },
        k \in {0, max_files - 1, max_files},
        line \in {"import langchain", "from langgraph.graph import StateGraph"},
        p \in {1, max_lines, max_lines + 1},
        back \in { << >>, <<PyFile(<<"import autogpt">>)>> } }

\* A source file below the depth os.walk can recurse to, and a source file
\* name that is a link to a FIFO.
DeepFile == [PyFile(<<"x = 1">>) EXCEPT !.too_deep = TRUE]
FifoPy == [PyFile(<< >>) EXCEPT !.fifo = TRUE, !.readable = FALSE]

\* Workspaces the import scan cannot get through: such a file, under a
\* walked directory, under an ignored directory (for the deep file: one
\* within the depth and one below it) or without a .py name, walked first,
\* behind a file importing autogpt, behind max_files - 1 or max_files
\* source files; without a requirements.txt, with one naming LangChain and
\* with one that is a link to a FIFO.
HazardTrees ==
    { [EmptyTree EXCEPT !.requirements = m,
                        !.files = front \o Fillers(k) \o <<h>>] :
        m \in {AbsentFile, TextFile(<<"LangChain">>), FifoFile},
        front \in { << >>, <<PyFile(<<"import autogpt">>)>> },
        k \in {0, max_files - 2, max_files - 1, max_files},
        h \in { DeepFile, [DeepFile EXCEPT !.ignored_dir = TRUE],
               [DeepFile EXCEPT !.ignored_dir = TRUE, !.ignored_below = TRUE],
                FifoPy, [FifoPy EXCEPT !.ignored_dir = TRUE],
                [FifoPy EXCEPT !.py = FALSE] } }

\* Workspaces one of whose manifest or lock file names is a link to a FIFO,
\* alone or with another file naming LangChain.
FifoTrees ==
    { [EmptyTree EXCEPT ![FileSlots[s]] = FifoFile] : s \in DOMAIN FileSlots }
    \cup
    UNION { { [[EmptyTree EXCEPT ![FileSlots[s]] = FifoFile]
                  EXCEPT ![FileSlots[t]] = TextFile(<<"LangChain">>)] :
                t \in (DOMAIN FileSlots) \ {s} } :
            s \in DOMAIN FileSlots }

DetectTrees ==
    ManifestTrees \cup SourceTrees \cup ScanTrees \cup HazardTrees \cup FifoTrees

\* A run at the call of detect_framework: its record was created, cloning
\* was persisted, the url validated, the clone returned the workspace and
\* detecting was persisted.
DetectInit ==
    \E t \in DetectTrees :
        LET url == <<"https://", "github.com", "/", "acme/agent">>
            run == 1
            workspace == mkdtemp(run)
        IN  /\ agents = (run :> [repository_url |-> url,
                                 branch |-> "main",
                                 status |-> "detecting",
                                 framework |-> NoneStr,
                                 commit_hash |-> NoneStr])
            /\ next_id = run + 1
            /\ engine = "any"
            /\ key = [a \in Ids |-> IF a = run THEN run ELSE NoKey]
            /\ pc = [a \in Ids |-> IF a = run THEN "detect" ELSE "idle"]
            /\ loaded = [a \in Ids |->
                           IF a = run
                           THEN [repository_url |-> url, branch |-> "main",
                                 status |-> Expired]
                           ELSE NoRow]
            /\ session = [a \in Ids |-> "active"]
            /\ in_transaction = [a \in Ids |-> FALSE]
            /\ repo_path = [a \in Ids |-> IF a = run THEN workspace ELSE NoDir]
            /\ result = [a \in Ids |-> NoResult]
            /\ exc = [a \in Ids |-> NoneStr]
            /\ escaped = [a \in Ids |-> NoneStr]
            /\ fs = (workspace :> t)
            /\ made = (workspace :> run)
            /\ rm_calls = [a \in Ids |-> << >>]
            /\ validated = [a \in Ids |-> IF a = run THEN {url} ELSE {}]
            /\ clone_args = [a \in Ids |->
                               IF a = run
                               THEN [repo_url |-> url, branch |-> "main", spawned |-> TRUE]
                               ELSE NoArgs]
            /\ hist = [a \in Ids |->
                         IF a = run THEN <<"pending", "cloning", "detecting">>
                         ELSE << >>]

\* The run from there to the end of its handler.  The removal of the
\* workspace and the closing of the session, which follow, are steps of
\* Spec.
DetectNext ==
    \/ \E a \in Ids, r \in RevParseOutcomes : run_detect(a, r)
    \/ \E a \in Ids, ok \in BOOLEAN : set_detected(a, ok)
    \/ \E a \in Ids, ok \in BOOLEAN : handle_exception(a, ok)
    \/ \E a \in Ids, ok \in BOOLEAN : handle_exception_print(a, ok)

SpecDetect == DetectInit /\ [][DetectNext]_vars

\* ------------------------------------------- validation over a range of urls
\* Longest url (in pieces) submitted below.
MaxUrlLen == 3

UrlPieces == {"https://", "git@", "github.com", "/", ":", "acme/agent"}

UrlsUpTo(n) == UNION { [1..k -> UrlPieces] : k \in 0..n }

\* A record just created by POST /api/agents with any url; its run is
\* scheduled.
UrlInit ==
    \E url \in UrlsUpTo(MaxUrlLen) :
        LET run == 1
        IN  /\ agents = (run :> [repository_url |-> url,
                                 branch |-> "main",
                                 status |-> "pending",
                                 framework |-> NoneStr,
                                 commit_hash |-> NoneStr])
            /\ next_id = run + 1
            /\ engine = "any"
            /\ key = [a \in Ids |-> IF a = run THEN run ELSE NoKey]
            /\ pc = [a \in Ids |-> IF a = run THEN "scheduled" ELSE "idle"]
            /\ loaded = [a \in Ids |-> NoRow]
            /\ session = [a \in Ids |-> "active"]
            /\ in_transaction = [a \in Ids |-> FALSE]
            /\ repo_path = [a \in Ids |-> NoDir]
            /\ result = [a \in Ids |-> NoResult]
            /\ exc = [a \in Ids |-> NoneStr]
            /\ escaped = [a \in Ids |-> NoneStr]
            /\ fs = << >>
            /\ made = << >>
            /\ rm_calls = [a \in Ids |-> << >>]
            /\ validated = [a \in Ids |-> {}]
            /\ clone_args = [a \in Ids |-> NoArgs]
            /\ hist = [a \in Ids |-> IF a = run THEN <<"pending">> ELSE << >>]

\* The run up to the call of clone_repo, and its failure path.
UrlNext ==
    \/ \E k \in Ids : delete_agent(k)
    \/ \E a \in Ids, ok \in BOOLEAN : lookup(a, ok)
    \/ \E a \in Ids, ok \in BOOLEAN : set_cloning(a, ok)
    \/ \E a \in Ids, ok \in BOOLEAN : validate(a, ok)
    \/ \E a \in Ids, ok \in BOOLEAN : handle_exception(a, ok)
    \/ \E a \in Ids, ok \in BOOLEAN : handle_exception_print(a, ok)
    \/ \E a \in Ids, rm_ok \in BOOLEAN : finally_cleanup(a, rm_ok)
    \/ \E a \in Ids, ok \in BOOLEAN : close_session(a, ok)

SpecUrl == UrlInit /\ [][UrlNext]_vars

\* ------------------------------------------------ requests sharing a key
\* MaxRequests POSTs, of a repository on github.com or of one elsewhere,
\* deletes and the runs, on a store that accepts every commit and read and
\* with a clone, a revision lookup and removals that work: what is left to
\* vary is the order of the steps and the keys the store hands out.
KeysNext ==
    \/ \E a \in 1..MaxRequests, e \in Engines,
          host \in {"github.com", "gitlab.com"} :
          create_agent(a, <<"https://", host, "/", "acme/agent">>, "main", e)
    \/ \E a \in Ids : create_agent_refresh(a, TRUE)
    \/ \E k \in Ids : delete_agent(k)
    \/ \E a \in Ids : lookup(a, TRUE)
    \/ \E a \in Ids : set_cloning(a, TRUE)
    \/ \E a \in Ids : validate(a, TRUE)
    \/ \E a \in Ids : clone_mkdtemp(a, TRUE)
    \/ \E a \in Ids :
          clone_repo(a, "ok",
                     [EmptyTree EXCEPT !.requirements = TextFile(<<"LangChain", "requests">>)],
                     TRUE)
    \/ \E a \in Ids : set_detecting(a, TRUE)
    \/ \E a \in Ids : run_detect(a, "ok")
    \/ \E a \in Ids : set_detected(a, TRUE)
    \/ \E a \in Ids : handle_exception(a, TRUE)
    \/ \E a \in Ids : handle_exception_print(a, TRUE)
    \/ \E a \in Ids : finally_cleanup(a, TRUE)
    \/ \E a \in Ids : close_session(a, TRUE)

SpecKeys == Init /\ [][KeysNext]_vars

\* ------------------------------------------------------------- properties
Range(q) == { q[i] : i \in DOMAIN q }

\* The run given to request a found its record and has ended.
Completed(a) == pc[a] = "done" /\ loaded[a] # NoRow

Terminal == {"detected", "failed"}

\* The directories mkdtemp created for run a.
MadeBy(a) == { d \in DOMAIN made : made[d] = a }

\* Run a called rmtree on directory d.
RmCalled(a, d) == \E i \in DOMAIN rm_calls[a] : rm_calls[a][i].path = d

\* C1: once a run whose record exists has completed, the persisted status of
\* the record is detected or failed, whichever step failed.
C1_FinalStatusTerminal ==
    \A a \in Ids :
        (Completed(a) /\ Exists(a)) => agents[key[a]].status \in Terminal

\* C2 (as claimed): the workspace a run's clone returned does not exist once
\* the run has completed.
C2_WorkspaceGone ==
    \A a \in Ids :
        (pc[a] = "done" /\ repo_path[a] # NoDir) => repo_path[a] \notin DOMAIN fs

\* C2 (amended): once a run whose clone returned a workspace has completed,
\* on the success path and on every failure path, cleanup has been called on
\* that workspace, and the directory is still there only if that removal
\* failed.
C2_WorkspaceCleanedUp ==
    \A a \in Ids :
        (pc[a] = "done" /\ repo_path[a] # NoDir) =>
            /\ RmCalled(a, repo_path[a])
            /\ repo_path[a] \in DOMAIN fs =>
                 \A i \in DOMAIN rm_calls[a] :
                     rm_calls[a][i].path = repo_path[a] => ~rm_calls[a][i].removed

\* A run failed after its clone returned (a commit raised) and has
\* completed, and its workspace is gone.
C2_Witness ==
    \E a \in Ids :
        /\ pc[a] = "done"
        /\ repo_path[a] # NoDir
        /\ exc[a] = "CommitError"
        /\ repo_path[a] \notin DOMAIN fs

\* C3: for a record whose url fails the shape check the status cloning is
\* never persisted.
C3_InvalidUrlNeverCloning ==
    \A a \in Ids :
        (hist[a] # << >> /\ loaded[a] # NoRow
           /\ ~validate_repo_url(loaded[a].repository_url))
        => "cloning" \notin Range(hist[a])

\* C4: a run whose url validate_repo_url rejects spawns no clone process and
\* creates no directory; every clone_repo call of a run follows a successful
\* validation, in that run, of the url it is given.
C4_CloneOnlyAfterValidation ==
    \A a \in Ids :
        /\ clone_args[a] # NoArgs =>
              /\ clone_args[a].repo_url \in validated[a]
              /\ validate_repo_url(clone_args[a].repo_url)
        /\ MadeBy(a) # {} => loaded[a].repository_url \in validated[a]
        /\ (loaded[a] # NoRow /\ ~validate_repo_url(loaded[a].repository_url)) =>
              /\ clone_args[a] = NoArgs
              /\ MadeBy(a) = {}

\* A run whose url was rejected has completed.
C4_Witness ==
    \E a \in Ids :
        /\ pc[a] = "done"
        /\ exc[a] = "InvalidUrl"
        /\ ~validate_repo_url(loaded[a].repository_url)

StatusPaths ==
    { <<"pending", "cloning", "detecting", "detected">>,
      <<"pending", "cloning", "failed">>,
      <<"pending", "detecting", "failed">> }

\* C5: the statuses persisted for a completed run that reached detected or
\* failed form one of the enumerated paths.
C5_StatusPaths ==
    \A a \in Ids :
        (Completed(a) /\ hist[a][Len(hist[a])] \in Terminal)
        => hist[a] \in StatusPaths

\* C6: a record carries a framework label or a commit id only if its
\* persisted status is detected.
C6_FieldsOnlyWhenDetected ==
    \A k \in DOMAIN agents :
        (agents[k].framework # NoneStr \/ agents[k].commit_hash # NoneStr)
        => agents[k].status = "detected"

\* C7: a run persists failed only for an invalid url or a failure of the
\* fetch (the clone process failing, timing out or not starting, its output
\* or its directory failing).
C7_OnlyFetchFailuresFail ==
    \A a \in Ids :
        "failed" \in Range(hist[a])
        => exc[a] \in {"InvalidUrl", "CloneFailed", "CloneTimeout", "CloneOSError",
                       "CloneDecodeError", "MkdtempError"}

\* C8: the revision lookup of detect_framework never raises to the run.
C8_ResolutionNeverRaises ==
    \A a \in Ids : exc[a] # "RevParseOSError"

\* C9: after a non-zero exit or timeout of the clone process, clone_repo has
\* called rmtree on its directory when the error reaches the run, and the
\* completed run leaves the record in failed.
C9_CloneFailureEndsFailed ==
    \A a \in Ids :
        exc[a] \in {"CloneFailed", "CloneTimeout"} =>
            /\ \A d \in MadeBy(a) : RmCalled(a, d)
            /\ (pc[a] = "done" /\ Exists(a)) => agents[key[a]].status = "failed"

\* C10: by the end of a run, rmtree has been called exactly once on every
\* directory the run created, and on no other directory.
C10_RemovedExactlyOnce ==
    \A a \in Ids :
        pc[a] = "done" =>
            /\ \A d \in MadeBy(a) :
                  Cardinality({ i \in DOMAIN rm_calls[a] : rm_calls[a][i].path = d }) = 1
            /\ \A i \in DOMAIN rm_calls[a] : rm_calls[a][i].path \in MadeBy(a)

\* The run has the label detect_framework returned for its workspace.
Classified(a) == pc[a] = "set_detected" /\ repo_path[a] \in DOMAIN fs

\* The classification each evidence source gives on its own, in the order
\* requirements.txt, pyproject.toml, Pipfile, poetry.lock, uv.lock,
\* Pipfile.lock, import scan.
\* A source that raises or never returns yields no classification.
Yield(c) == IF c \in {RecursionError, Hung} THEN NoneStr ELSE c

Evidence(tree) ==
    << Yield(ReadAndClassify(tree.requirements)),
       Yield(ReadAndClassify(tree.pyproject)),
       Yield(ReadAndClassify(tree.pipfile)),
       Yield(ClassifyLockfile(tree.poetry_lock, FALSE)),
       Yield(ClassifyLockfile(tree.uv_lock, FALSE)),
       Yield(ClassifyLockfile(tree.pipfile_lock, TRUE)),
       Yield(_detect_from_imports(tree)) >>

\* The import scan is consulted, every source before it being empty, and
\* raises.
ScanRaises(tree) ==
    /\ \A k \in 1..6 : Evidence(tree)[k] = NoneStr
    /\ _detect_from_imports(tree) = RecursionError

\* C11: the label detect_framework returns is the classification of the
\* first evidence source, in the fixed order, whose classification is not
\* empty, and unknown when every source is empty; no later source overrides
\* it.  A source that raises has yielded no classification: when the import
\* scan is consulted and raises, the label is unknown, whatever the scan had
\* matched.
C11_FirstEvidenceWins ==
    \A a \in Ids :
        Classified(a) =>
            LET ev == Evidence(fs[repo_path[a]])
                nonempty == { k \in DOMAIN ev : ev[k] # NoneStr }
            IN  /\ nonempty = {} => result[a].framework = "unknown"
                /\ \A k \in nonempty :
                      (\A j \in nonempty : k <= j) => result[a].framework = ev[k]
                /\ ScanRaises(fs[repo_path[a]]) => result[a].framework = "unknown"

\* A workspace whose requirements.txt gives custom while its pyproject.toml
\* names langchain and a source file imports crewai was classified custom.
C11_Witness ==
    \E a \in Ids :
        /\ Classified(a)
        /\ Evidence(fs[repo_path[a]])[1] = "custom"
        /\ Evidence(fs[repo_path[a]])[2] = "langchain"
        /\ Evidence(fs[repo_path[a]])[7] = "crewai"
        /\ result[a].framework = "custom"

\* The framework names and generic markers that occur in a text, whatever
\* the case of its letters.
NamesIn(text) ==
    { kw \in Range(priority) \cup generic_markers :
        \E i \in DOMAIN text : kw \in KeywordsIn(LowerWord(text[i])) }

\* The first framework name of the priority order among `names`, custom when
\* there are only markers, nothing otherwise.
LabelOf(names) ==
    IF names \cap Range(priority) # {}
    THEN priority[CHOOSE k \in DOMAIN priority :
                    /\ priority[k] \in names
                    /\ \A j \in DOMAIN priority : priority[j] \in names => k <= j]
    ELSE IF names # {} THEN "custom"
    ELSE NoneStr

\* The workspace holds the file of slot s, readable, and nothing else.
OnlyFile(tree, s) ==
    /\ tree.files = << >>
    /\ tree[s].exists /\ tree[s].readable
    /\ \A o \in Range(FileSlots) : o # s => ~tree[o].exists

\* What detect_framework returns when its only evidence classifies as c.
AsLabel(c) == IF c = NoneStr THEN "unknown" ELSE c

\* C12 (as claimed): a workspace holding one manifest or lock file is
\* labelled by the names that occur, in any case, in the text of that file:
\* the first framework name of the priority order, custom when only a generic
\* marker occurs, no classification otherwise.
C12_KeywordsOfFileText ==
    \A a \in Ids : \A s \in Range(FileSlots) :
        (Classified(a) /\ OnlyFile(fs[repo_path[a]], s)) =>
            result[a].framework = AsLabel(LabelOf(NamesIn(fs[repo_path[a]][s].text)))

\* The text the keywords are looked for in: the text of the file, and for a
\* Pipfile.lock that parses as JSON its re-serialisation.
ClassifiedText(tree, s) ==
    IF s = "pipfile_lock" THEN JsonRoundTrip(lower(tree[s].text)) ELSE tree[s].text

\* C12 (amended): the same, over the text of the file for the manifests,
\* poetry.lock, uv.lock and a Pipfile.lock that is not JSON, and over the
\* re-serialised JSON for a Pipfile.lock that parses.
C12_KeywordsOfClassifiedText ==
    \A a \in Ids : \A s \in Range(FileSlots) :
        (Classified(a) /\ OnlyFile(fs[repo_path[a]], s)) =>
            result[a].framework =
                AsLabel(LabelOf(NamesIn(ClassifiedText(fs[repo_path[a]], s))))

\* A manifest naming LangChain and langgraph in mixed case was classified
\* langgraph.
C12_Witness ==
    \E a \in Ids :
        /\ Classified(a)
        /\ OnlyFile(fs[repo_path[a]], "pyproject")
        /\ fs[repo_path[a]].pyproject.text = <<"LangChain", "langgraph">>
        /\ result[a].framework = "langgraph"

\* The manifests and lock files of the workspace that exist.
Metadata(tree) == { s \in Range(FileSlots) : tree[s].exists }

\* C13: detect_framework returns custom only for a workspace that has a
\* manifest or lock file and none of whose manifests and lock files names
\* langgraph, langchain, crewai or autogpt.
C13_CustomOnlyWithoutNamedFramework ==
    \A a \in Ids :
        (Classified(a) /\ result[a].framework = "custom") =>
            /\ Metadata(fs[repo_path[a]]) # {}
            /\ \A s \in Metadata(fs[repo_path[a]]) :
                  NamesIn(fs[repo_path[a]][s].text) \cap Range(priority) = {}

\* The url is not empty and some stretch of it is github.com/,
\* https://github.com/ or git@github.com:
HasGithubShape(url) ==
    /\ url # << >>
    /\ \E i \in 1..Len(url), j \in 1..Len(url) :
          SubSeq(url, i, j) \in { <<"github.com", "/">>,
                                  <<"https://", "github.com", "/">>,
                                  <<"git@", "github.com", ":">> }

\* C14: validate_repo_url accepts a url exactly when it is non-empty and
\* contains github.com/, https://github.com/ or git@github.com: (the run goes
\* on to the clone when it does and raises the invalid-url error when it does
\* not), and the call changes nothing but the run's own position and copy
\* of the row.
C14_ValidateRepoUrl ==
    /\ [](\A a \in Ids :
            /\ pc[a] = "clone" => HasGithubShape(loaded[a].repository_url)
            /\ exc[a] = "InvalidUrl" => ~HasGithubShape(loaded[a].repository_url))
    /\ [][\A a \in Ids :
            (pc[a] = "validate" /\ pc'[a] # "validate") =>
                UNCHANGED <<agents, next_id, engine, key, session, repo_path,
                            result, escaped, fs, made, rm_calls, clone_args, hist>>]_vars

\* A non-empty url that names github.com without a pattern was rejected.
C14_Witness ==
    \E a \in Ids :
        /\ exc[a] = "InvalidUrl"
        /\ loaded[a].repository_url = <<"https://", "github.com", ":">>

\* C15 (as claimed): a run whose record does not exist when it starts goes
\* straight to its end; it writes nothing to the record store, spawns no
\* process, creates and removes no directory and raises nothing.
C15_AbsentRecordNoOp ==
    /\ [][\A a \in Ids :
            (pc[a] = "scheduled" /\ ~Exists(a) /\ pc'[a] # "scheduled") =>
                /\ pc'[a] \in {"close", "done"}
                /\ UNCHANGED <<agents, hist, fs, made, rm_calls, clone_args,
                               exc, escaped, session>>]_vars
    /\ [](\A a \in Ids :
            (pc[a] = "done" /\ loaded[a] = NoRow) =>
                /\ hist[a] = <<"pending">>
                /\ clone_args[a] = NoArgs
                /\ MadeBy(a) = {}
                /\ rm_calls[a] = << >>
                /\ exc[a] = NoneStr
                /\ escaped[a] = NoneStr)

\* C15 (amended): a run whose record does not exist when it starts goes
\* straight to the closing of its session and ends there; it writes nothing
\* to the record store, spawns no process and creates and removes no
\* directory; it raises nothing when its query finds no record and the
\* close goes through, and otherwise only the error of the query or of the
\* rollback the close sends.
C15_AbsentRecordWritesNothing ==
    /\ [][\A a \in Ids :
            /\ (pc[a] = "scheduled" /\ ~Exists(a) /\ pc'[a] # "scheduled") =>
                  /\ pc'[a] = "close"
                  /\ UNCHANGED <<agents, hist, fs, made, rm_calls, clone_args,
                                 exc, session, loaded>>
                  /\ escaped'[a] \in {NoneStr, "QueryError"}
            /\ (pc[a] = "close" /\ loaded[a] = NoRow /\ pc'[a] # "close") =>
                  /\ pc'[a] = "done"
                  /\ UNCHANGED <<agents, hist, fs, made, rm_calls, clone_args,
                                 exc, session, loaded>>
                  /\ escaped'[a] \in {escaped[a], "CloseError"}]_vars
    /\ [](\A a \in Ids :
            (pc[a] \in {"close", "done"} /\ loaded[a] = NoRow) =>
                /\ hist[a] = <<"pending">>
                /\ clone_args[a] = NoArgs
                /\ MadeBy(a) = {}
                /\ rm_calls[a] = << >>
                /\ exc[a] = NoneStr
                /\ escaped[a] \in {NoneStr, "QueryError", "CloseError"})

\* The record was deleted before its run started, and the run has ended
\* without an error.
C15_Witness ==
    \E a \in Ids :
        /\ pc[a] = "done"
        /\ loaded[a] = NoRow
        /\ ~Exists(a)
        /\ hist[a] = <<"pending">>
        /\ escaped[a] = NoneStr

Malformed(file) == file.exists /\ file.readable /\ ~JsonParses(lower(file.text))

\* C17 (as claimed): a workspace with an unreadable manifest or lock file,
\* or with a Pipfile.lock that is not valid JSON, gets the label of the same
\* workspace without that file.
C17_FailedSourceIsNoEvidence ==
    \A a \in Ids :
        Classified(a) =>
            LET tree == fs[repo_path[a]]
            IN  /\ \A s \in Range(FileSlots) :
                      (tree[s].exists /\ ~tree[s].readable) =>
                          result[a].framework =
                              ClassifyTree([tree EXCEPT ![s] = AbsentFile])
                /\ Malformed(tree.pipfile_lock) =>
                      result[a].framework =
                          ClassifyTree([tree EXCEPT !.pipfile_lock = AbsentFile])

\* C17 (amended): a workspace with an unreadable manifest or lock file gets
\* the label of the same workspace without that file; a Pipfile.lock that is
\* not valid JSON is classified by its raw text, as if it were named uv.lock.
C17_UnreadableSourceIsNoEvidence ==
    \A a \in Ids :
        Classified(a) =>
            LET tree == fs[repo_path[a]]
            IN  /\ \A s \in Range(FileSlots) :
                      (tree[s].exists /\ ~tree[s].readable) =>
                          result[a].framework =
                              ClassifyTree([tree EXCEPT ![s] = AbsentFile])
                /\ (Malformed(tree.pipfile_lock) /\ ~tree.uv_lock.exists) =>
                      result[a].framework =
                          ClassifyTree([tree EXCEPT !.uv_lock = tree.pipfile_lock,
                                                    !.pipfile_lock = AbsentFile])

\* A workspace whose requirements.txt cannot be read and whose pyproject.toml
\* names langchain was classified langchain.
C17_Witness ==
    \E a \in Ids :
        /\ Classified(a)
        /\ fs[repo_path[a]].requirements = UnreadableFile
        /\ fs[repo_path[a]].pyproject = TextFile(<<"LangChain">>)
        /\ result[a].framework = "langchain"

\* The files of the workspace the scan opens: those with a .py name outside
\* the ignored directories, the first max_files of them in walk order.
Inspected(files) ==
    { i \in DOMAIN files :
        /\ files[i].py /\ ~files[i].ignored_dir
        /\ Cardinality({ j \in 1..i : files[j].py /\ ~files[j].ignored_dir })
              <= max_files }

\* The frameworks imported on one of the first max_lines lines of an
\* inspected file.
InspectedImports(files) ==
    { fw \in Range(priority) :
        \E i \in Inspected(files) :
            /\ files[i].readable
            /\ \E n \in DOMAIN files[i].lines :
                  n <= max_lines /\ fw \in ImportsOf(files[i].lines[n]) }

\* C18: for a workspace without manifests and lock files the import scan
\* always completes (the run is never left in a file read of it), and the
\* label is the highest-priority framework imported within the first
\* max_lines lines of the first max_files source files outside the ignored
\* directories, in whatever order the files were walked, and unknown when
\* there is none; an import beyond either ceiling does not count.
C18_ImportScan ==
    \A a \in Ids :
        (repo_path[a] \in DOMAIN fs /\ Metadata(fs[repo_path[a]]) = {}) =>
            /\ pc[a] # "hung_reading"
            /\ Classified(a) =>
                  result[a].framework =
                      AsLabel(LabelOf(InspectedImports(fs[repo_path[a]].files)))

\* The status run a persisted last.
LastStatus(a) == hist[a][Len(hist[a])]

\* C19: when a run cleans up its workspace, the last thing it does before
\* its session is closed, it has
\* persisted detected or failed before; the cleanup, also one that does not
\* remove the directory, raises nothing and leaves the record as it is.
C19_CleanupAfterTerminalStatus ==
    [][\A a \in Ids :
         (pc[a] = "finally" /\ pc'[a] # "finally" /\ repo_path[a] # NoDir) =>
             /\ LastStatus(a) \in Terminal
             /\ UNCHANGED <<agents, hist, exc, escaped>>]_vars

\* C20: every run that found its record comes to its end, and by then it
\* has persisted detected or failed for a record that is still there and has
\* called rmtree on every directory it created.
C20_RunsComplete ==
    \A a \in Ids :
        (pc[a] = "set_cloning") ~>
            /\ pc[a] = "done"
            /\ Exists(a) => agents[key[a]].status \in Terminal
            /\ \A d \in MadeBy(a) : RmCalled(a, d)

\* C21: every create_agent call that has inserted its record schedules a
\* run for it, and no two requests, hence no two runs, are given the same
\* record key.
C21_OneRunPerRecord ==
    /\ \A a \in Ids : hist[a] # << >> => pc[a] # "unscheduled"
    /\ \A a, b \in Ids : (a # b /\ key[a] # NoKey) => key[a] # key[b]

\* C22: the branch given to the clone process is main when the record's
\* branch is empty, and the record's branch otherwise.
C22_EmptyBranchClonesDefault ==
    \A a \in Ids :
        clone_args[a] # NoArgs =>
            clone_args[a].branch =
                IF loaded[a].branch = "" THEN "main" ELSE loaded[a].branch

\* Run a found its record, and no row has its key now.
DeletedInFlight(a) == loaded[a] # NoRow /\ ~Exists(a)

\* A row enters the store only by the insert of a create_agent request: no
\* step of a run brings a key back.
StaysDeleted ==
    \A k \in (DOMAIN agents') \ (DOMAIN agents) :
        \E a \in Ids : pc[a] = "idle" /\ pc'[a] = "inserted" /\ key'[a] = k

\* C23 (as claimed): a run whose record was deleted while it was in flight
\* has, once it has ended, no workspace left, and the record never comes
\* back.
C23_DeletedRunLeavesNoWorkspace ==
    /\ [](\A a \in Ids :
            (DeletedInFlight(a) /\ pc[a] = "done" /\ repo_path[a] # NoDir) =>
                repo_path[a] \notin DOMAIN fs)
    /\ [][StaysDeleted]_vars

\* C23 (amended): a run whose record was deleted while it was in flight has,
\* once it has ended, called cleanup on the workspace its clone returned,
\* and the directory is still there only if that removal failed; the record
\* never comes back.
C23_DeletedRunCleansUp ==
    /\ [](\A a \in Ids :
            (DeletedInFlight(a) /\ pc[a] = "done" /\ repo_path[a] # NoDir) =>
                /\ RmCalled(a, repo_path[a])
                /\ repo_path[a] \in DOMAIN fs =>
                     \A i \in DOMAIN rm_calls[a] : ~rm_calls[a][i].removed)
    /\ [][StaysDeleted]_vars

\* A run whose record was deleted after its clone returned has ended, its
\* commit was refused, and its workspace is gone.
C23_Witness ==
    \E a \in Ids :
        /\ DeletedInFlight(a)
        /\ pc[a] = "done"
        /\ repo_path[a] # NoDir
        /\ escaped[a] = "CommitError"
        /\ repo_path[a] \notin DOMAIN fs

====
